---- MODULE Spec2Model ----
(***************************************************************************)
(* Realtime chess match engine of Mars-Students (backend/api).             *)
(*                                                                         *)
(* One match is modelled: its persisted ChessGame row (db), the WebSocket  *)
(* consumers of its two participants, its timer task, and the two          *)
(* request/response endpoints that write the same row.  Every handler      *)
(* works on the copy of the row that get_game() returned to it and writes  *)
(* the whole copy back with game.save(); the awaits between the load and   *)
(* the save are the points where other handlers run.                       *)
(*                                                                         *)
(* python-chess is an external library.  Its board is abstracted to a      *)
(* small deterministic game: a position is a number that encodes the moves *)
(* played plus the side to move; a move is a (from-to, promotion) pair.    *)
(* Wall time is counted in ticks of 1/TicksPerSecond seconds so that the   *)
(* floor of int(delta.total_seconds()) is visible.                         *)
(***************************************************************************)
EXTENDS Integers, Sequences, FiniteSets, TLC

\* ---------------------------------------------------------------- bounds
MaxNow == 4          \* wall-clock horizon, in ticks
TicksPerSecond == 2  \* resolution of the wall clock
InitialTime == 1     \* per-side clock of a new match, seconds (300 in models.py, scaled)
MaxOps == 2          \* client requests admitted past their guards
MaxCredits == 2      \* audit records after which no further finish starts

\* ------------------------------------------------------------- constants
None == "none"       \* Python None for identities and nullable strings
NoTime == -1         \* Python None for last_move_at
Users == {"p1", "p2"}
\* scope['user'] of a connection whose token is missing or invalid
AnonymousUser == "anonymous"
\* who may open a connection
Clients == Users \cup {AnonymousUser}
\* the game_id of the URL: the row of the match, or an id with no row
GameIds == {"match", "unknown"}
BotLevels == {"easy", "medium", "hard"}
Colors == {"white", "black"}

Other(c) == IF c = "white" THEN "black" ELSE "white"

\* ---------------------------------------------------------- rules engine
\* chess.Board(fen): sq encodes the sequence of moves played, turn is the
\* side to move that the FEN carries.
InitialFen == [sq |-> 0, turn |-> "white"]

MoveNames == {"quiet", "promote", "mate", "stale"}
Base == 5
Code(mv) == CASE mv = "quiet" -> 1 [] mv = "promote" -> 2
              [] mv = "mate" -> 3 [] mv = "stale" -> 4 [] OTHER -> 0

\* board.is_checkmate()
IsCheckmate(board) == board.sq % Base = 3
\* board.is_stalemate() or board.is_insufficient_material() or board.can_claim_draw()
IsDrawn(board) == board.sq % Base = 4

\* chess.Move.from_uci(uci): the uci string is the from-to pair followed by
\* the promotion letter; a malformed string raises ValueError.
WellFormedUci(uci) == uci[1] \in MoveNames /\ uci[2] \in {"", "q"}

\* board.legal_moves: no move in a terminal position; a pawn reaching the
\* last rank needs its promotion letter and no other move may carry one;
\* the mating move is not available right after a quiet move.
LegalMoves(board) ==
    IF IsCheckmate(board) \/ IsDrawn(board) THEN {}
    ELSE {<<"quiet", "">>, <<"stale", "">>, <<"promote", "q">>}
         \cup (IF board.sq % Base # 1 THEN {<<"mate", "">>} ELSE {})

\* board.push(move)
Push(board, uci) == [sq |-> board.sq * Base + Code(uci[1]), turn |-> Other(board.turn)]

\* board.san(move): the notation stored in move_history
San(board, uci) == CASE uci[1] = "quiet" -> "Nf3"
                     [] uci[1] = "promote" -> "e8=Q"
                     [] uci[1] = "mate" -> "Qg7#"
                     [] OTHER -> "Kh1"

\* board.parse_san(san): the move a stored notation stands for
ParseSan(board, san) == CASE san = "Nf3" -> <<"quiet", "">>
                          [] san = "e8=Q" -> <<"promote", "q">>
                          [] san = "Qg7#" -> <<"mate", "">>
                          [] OTHER -> <<"stale", "">>

\* Re-deriving the board from the stored move list, from the initial position.
RECURSIVE ReplayFrom(_, _)
ReplayFrom(board, history) ==
    IF history = <<>> THEN board
    ELSE ReplayFrom(Push(board, ParseSan(board, Head(history))), Tail(history))

Replay(history) == ReplayFrom(InitialFen, history)

\* ------------------------------------------------------------ reward table
\* chess_logic.CHESS_REWARDS
CHESS_REWARDS ==
    [BOT |-> [easy |-> [WIN |-> 45, DRAW |-> 10, LOSE |-> 0],
              medium |-> [WIN |-> 75, DRAW |-> 20, LOSE |-> 0],
              hard |-> [WIN |-> 100, DRAW |-> 30, LOSE |-> 0]],
     STUDENT |-> [WIN |-> 50, DRAW |-> 20, LOSE |-> 0]]

\* a calculator that pays the PvP draw amount for a PvP win
calculate_reward_flat(opponent_type, bot_level, result) ==
    IF opponent_type = "BOT" THEN CHESS_REWARDS.BOT[bot_level][result]
    ELSE CHESS_REWARDS.STUDENT["DRAW"]

calculate_reward(opponent_type, bot_level, result) ==
    IF opponent_type = "BOT" THEN CHESS_REWARDS.BOT[bot_level][result]
    ELSE CHESS_REWARDS.STUDENT[result]

\* views.CHESS_REWARDS, the table of ChessFinishGameView
views_CHESS_REWARDS ==
    [BOT |-> [easy |-> [WIN |-> 45, DRAW |-> 10, LOSE |-> 0],
              medium |-> [WIN |-> 75, DRAW |-> 20, LOSE |-> 0],
              hard |-> [WIN |-> 100, DRAW |-> 30, LOSE |-> 0]],
     STUDENT |-> [WIN |-> 50, DRAW |-> 20, LOSE |-> 0]]

\* the lookup ChessFinishGameView.post makes in its table
views_reward(opponent_type, bot_level, result) ==
    IF opponent_type = "BOT" THEN views_CHESS_REWARDS.BOT[bot_level][result]
    ELSE views_CHESS_REWARDS.STUDENT[result]

\* ------------------------------------------------------------------ state
VARIABLES
    db,        \* the persisted ChessGame row
    now,       \* wall clock, in ticks
    conn,      \* per participant: its consumer's position, loaded copy, message
    timer,     \* the timer task of the match: position, loaded copy, timer state
    credits,   \* per participant: number of CoinTransaction rows of this match
    coins,     \* per participant: amount credited for this match
    ops,       \* number of client requests admitted so far
    turn_since,\* wall time at which the side now on move in db got the move
    out,       \* messages sent by the last step
    invites,   \* the ChessInvite rows, by primary key
    made,      \* the ChessGame rows created by accepting invites
    req,       \* per HTTP request slot of the invite views: position and input
    outbox,    \* per publisher: the frames it has still to group_send
    sent,      \* the move and game_over frames group_sent so far, in order
    tasks,     \* number of timer_loop tasks of the match that are running
    balance,   \* per user: the persisted User.balance
    ledger,    \* the CoinTransaction rows written, in order
    held       \* per finishing handler: the user rows its get_game loaded

vars == <<db, now, conn, timer, credits, coins, ops, turn_since, out,
          invites, made, req, outbox, sent, tasks, balance, ledger, held>>
\* the state of the invite views, the state of one match, and the
\* publications of the handlers that group_send in steps of their own
inviteVars == <<invites, made, req>>
matchVars == <<db, now, conn, timer, credits, coins, ops, turn_since, tasks>>
fanoutVars == <<outbox, sent>>
\* the balances of the users, their audit records and the user rows held
\* by the handlers that credit
walletVars == <<balance, ledger, held>>

\* ChessGame.objects.create(...) with the model's defaults
NewGame(opponent_type, bot_level, opponent, white_player) ==
    [player |-> "p1", opponent_type |-> opponent_type, bot_level |-> bot_level,
     opponent |-> opponent, white_player |-> white_player,
     status |-> "IN_PROGRESS", result |-> None, coins_earned |-> 0,
     fen_position |-> InitialFen, move_history |-> <<>>, last_move |-> <<>>,
     current_turn |-> "white", white_time |-> InitialTime, black_time |-> InitialTime,
     last_move_at |-> NoTime, ended_reason |-> None, winner |-> None, loser |-> None]

\* ChessStartGameView.post: the player is white against the bot
BotGames == {NewGame("BOT", lvl, None, "p1") : lvl \in BotLevels}
\* ChessRespondInviteView.post: random.choice decides who is white
PvpGames == {NewGame("STUDENT", None, "p2", w) : w \in Users}

IdleConn == [pc |-> "closed", game |-> None, uci |-> <<>>]
IdleTimer == [pc |-> "none", game |-> None, loser |-> None]
Reqs == {"r1", "r2"}
\* who calls group_send: the consumer of a participant, the timer task
Publishers == Users \cup {"timer"}
\* the handlers that finish a match of the same participants at the same
\* time, and a handler that holds no user rows
Finishers == {"f1", "f2"}
NoRows == [pc |-> "idle", balance |-> <<>>]
IdleReq == [pc |-> "idle", user |-> None, to |-> None, id |-> 0, accept |-> FALSE]

Init ==
    /\ db \in BotGames \cup PvpGames
    /\ now = 0
    /\ conn = [u \in Clients |-> IdleConn]
    /\ timer = IdleTimer
    /\ credits = [u \in Users |-> 0]
    /\ coins = [u \in Users |-> 0]
    /\ ops = 0
    /\ turn_since = 0
    /\ out = <<>>
    /\ invites = <<>>
    /\ made = <<>>
    /\ req = [r \in Reqs |-> IdleReq]
    /\ outbox = [p \in Publishers |-> <<>>]
    /\ sent = <<>>
    /\ tasks = 0
    /\ balance = [u \in Users |-> 0]
    /\ ledger = <<>>
    /\ held = [f \in Finishers |-> NoRows]

\* ---------------------------------------------------------------- helpers
\* is_user_in_game without the comparison with the two sides
is_user_in_game_anyone(game, user) == TRUE

\* is_user_in_game
is_user_in_game(game, user) == user = game.player \/ user = game.opponent

\* is_user_turn
is_user_turn(game, user) ==
    \/ game.white_player = user /\ game.current_turn = "white"
    \/ game.white_player # user /\ game.current_turn = "black"

\* an elapsed time that counts from the start of the clock when the row
\* has no timestamp
get_elapsed_seconds_epoch(game, t) ==
    IF game.last_move_at = NoTime THEN t \div TicksPerSecond
    ELSE (t - game.last_move_at) \div TicksPerSecond

\* get_elapsed_seconds: int(delta.total_seconds()), 0 without a timestamp
get_elapsed_seconds(game, t) ==
    IF game.last_move_at = NoTime THEN 0
    ELSE (t - game.last_move_at) \div TicksPerSecond

\* a get_black_player that answers with the wrong side
get_black_player_swapped(game) ==
    IF game.white_player # game.player THEN game.opponent ELSE game.player

\* get_black_player
get_black_player(game) ==
    IF game.white_player # game.player THEN game.player ELSE game.opponent

Max(a, b) == IF a >= b THEN a ELSE b

\* a debit that is not clamped at zero
Debit_unclamped(remaining, elapsed) == remaining - elapsed

\* debit of apply_move and get_timer_state
Debit(remaining, elapsed) == Max(0, remaining - elapsed)

Msg(to, type, info) == [to |-> to, type |-> type, info |-> info]

\* bookkeeping of turn_since by every step that writes the row
TrackTurn ==
    turn_since' = IF db'.current_turn # db.current_turn THEN now ELSE turn_since

\* ------------------------------------------------------- finishing a match
\* award_chess_rewards: the credits add_coins is called for, in order
award_chess_rewards(game, winner) ==
    IF game.opponent_type = "BOT" THEN
        IF winner = None /\ game.loser = None THEN
            LET c == calculate_reward("BOT", game.bot_level, "DRAW")
            IN  IF c > 0 THEN <<[user |-> game.player, amount |-> c]>> ELSE <<>>
        ELSE IF winner = None THEN <<>>
        ELSE IF winner = game.player THEN
            LET c == calculate_reward("BOT", game.bot_level, "WIN")
            IN  IF c > 0 THEN <<[user |-> game.player, amount |-> c]>> ELSE <<>>
        ELSE <<>>
    ELSE IF winner = None THEN
        LET c == calculate_reward("STUDENT", None, "DRAW")
        IN  IF c > 0
            THEN <<[user |-> game.player, amount |-> c]>>
                 \o (IF game.opponent # None
                     THEN <<[user |-> game.opponent, amount |-> c]>> ELSE <<>>)
            ELSE <<>>
    ELSE
        LET c == calculate_reward("STUDENT", None, "WIN")
        IN  IF c > 0 THEN <<[user |-> winner, amount |-> c]>> ELSE <<>>

\* a guard that never takes the early return
AlreadyOver_never(game) == FALSE

\* `game.status != ChessGame.Status.IN_PROGRESS` of finish_game_sync
AlreadyOver(game) == game.status # "IN_PROGRESS"

\* finish_game_sync: the copy as saved, the credits made, and whether the
\* finish ran (ran = FALSE is the early return on a copy that is not
\* IN_PROGRESS, which saves nothing)
finish_game_sync(game, winner0, loser0, ended_reason) ==
    IF AlreadyOver(game)
    THEN [ran |-> FALSE, game |-> game, awards |-> <<>>]
    ELSE
        LET opposing == IF loser0 # game.white_player
                        THEN game.white_player ELSE get_black_player(game)
            w1 == IF ended_reason = "timeout" /\ loser0 # None /\ winner0 = None
                  THEN opposing ELSE winner0
            w2 == IF ended_reason = "resign" /\ w1 = None THEN opposing ELSE w1
            winner == IF ended_reason = "draw" THEN None ELSE w2
            loser == IF ended_reason = "draw" THEN None ELSE loser0
            result == IF winner = None /\ loser = None THEN "DRAW"
                      ELSE IF game.player = winner THEN "WIN" ELSE "LOSE"
            g1 == [game EXCEPT !.status = "FINISHED", !.ended_reason = ended_reason,
                               !.winner = winner, !.loser = loser, !.result = result]
            g2 == IF ended_reason = "timeout" /\ loser # None
                  THEN IF loser = game.white_player
                       THEN [g1 EXCEPT !.white_time = 0]
                       ELSE [g1 EXCEPT !.black_time = 0]
                  ELSE g1
        IN  [ran |-> TRUE, game |-> g2,
             awards |-> IF ended_reason \in {"checkmate", "timeout", "resign", "draw"}
                        THEN award_chess_rewards(g2, winner) ELSE <<>>]

\* the game_over payload of finish_game_sync
GameOverMsg(game) == Msg("group", "game_over", game.ended_reason)

\* the dictionary finish_game_sync returns to its caller
FinishPayload(game) ==
    [type |-> "game_over", status |-> game.status,
     ended_reason |-> game.ended_reason,
     winner_id |-> game.winner, loser_id |-> game.loser]

\* add_coins applied to each credit in turn
RECURSIVE CountFor(_, _)
CountFor(awards, u) ==
    IF awards = <<>> THEN 0
    ELSE (IF Head(awards).user = u THEN 1 ELSE 0) + CountFor(Tail(awards), u)

RECURSIVE SumFor(_, _)
SumFor(awards, u) ==
    IF awards = <<>> THEN 0
    ELSE (IF Head(awards).user = u THEN Head(awards).amount ELSE 0)
         + SumFor(Tail(awards), u)

add_coins(awards) ==
    /\ credits' = [u \in Users |-> credits[u] + CountFor(awards, u)]
    /\ coins' = [u \in Users |-> coins[u] + SumFor(awards, u)]

\* ------------------------------------------------------------ apply_move
\* a legality test that lets every well-formed move through
IsLegal_unchecked(board, uci) == TRUE

\* `move not in board.legal_moves` of apply_move, negated
IsLegal(board, uci) == uci \in LegalMoves(board)

\* apply_move at wall time t on the loaded copy: updated = FALSE is the
\* return None of a malformed or illegal move, with nothing saved.
apply_move(game, from_to, promotion, t) ==
    LET board == game.fen_position
        elapsed == get_elapsed_seconds(game, t)
        g1 == IF game.current_turn = "white"
              THEN [game EXCEPT !.white_time = Debit(@, elapsed)]
              ELSE [game EXCEPT !.black_time = Debit(@, elapsed)]
        uci == <<from_to, promotion>>
    IN  IF ~WellFormedUci(uci) \/ ~IsLegal(board, uci)
        THEN [updated |-> FALSE, game |-> game, awards |-> <<>>, over |-> FALSE]
        ELSE
            LET after == Push(board, uci)
                g2 == [g1 EXCEPT !.fen_position = after,
                                 !.last_move = uci,
                                 !.move_history = Append(@, San(board, uci)),
                                 !.current_turn = after.turn,
                                 !.last_move_at = t]
                loser_color == after.turn
                winner_color == Other(loser_color)
                winner == IF winner_color = "white"
                          THEN g2.white_player ELSE get_black_player(g2)
                loser == IF loser_color = "white"
                         THEN g2.white_player ELSE get_black_player(g2)
                fin == IF IsCheckmate(after)
                       THEN finish_game_sync(g2, winner, loser, "checkmate")
                       ELSE finish_game_sync(g2, None, None, "draw")
            IN  IF IsCheckmate(after) \/ IsDrawn(after)
                THEN [updated |-> TRUE, game |-> fin.game, awards |-> fin.awards,
                      over |-> TRUE]
                ELSE [updated |-> TRUE, game |-> g2, awards |-> <<>>, over |-> FALSE]

\* the move payload and the embedded game_over payload that handle_move
\* sends to the group
MovePayloads(game, over) ==
    <<Msg("group", "move", game.last_move[1])>>
    \o (IF over THEN <<GameOverMsg(game)>> ELSE <<>>)

next_is_bot(game) == game.opponent_type = "BOT" /\ game.current_turn = "black"

\* --------------------------------------------------------------- messages
\* what a client may send as a move: the from-to pair ("" when from or to
\* is missing) and the promotion field ("absent" when the key is omitted,
\* which handle_move reads as 'q')
FromTos == MoveNames \cup {""}
Promotions == {"absent", "", "q"}

\* content.get('promotion', 'q'): the value of the key, 'q' when the key
\* is omitted
content_get_promotion(promotion) == IF promotion = "absent" THEN "q" ELSE promotion

\* ------------------------------------------------------ ChessConsumer
\* get_game: the row, or nothing (Python None) when no row has the id
get_game(game_id) == IF game_id = "match" THEN <<db>> ELSE <<>>

\* the error frame and the close code of a rejected connection
Rejected(user, message, code) ==
    <<Msg(user, "error", message), Msg(user, "close", code)>>

\* the members of the group chess_<id> of the match: the connections that
\* passed group_add
Group == {c \in Clients : conn[c].pc # "closed"}

\* who gets a frame: send_json reaches the connection itself, group_send
\* reaches the members of the group
Receivers(m, members) == IF m.to = "group" THEN members ELSE {m.to}

\* the frames that carry the state of the match
MatchEvents == {"game_state", "move", "game_over", "timer_update"}

\* a snapshot that reports the running clock of the side on move
build_game_state_live(game, user) ==
    [fen |-> game.fen_position, move_history |-> game.move_history,
     white_time |-> IF game.current_turn = "white"
                    THEN Debit(game.white_time, get_elapsed_seconds(game, now))
                    ELSE game.white_time,
     black_time |-> IF game.current_turn = "black"
                    THEN Debit(game.black_time, get_elapsed_seconds(game, now))
                    ELSE game.black_time,
     current_turn |-> game.current_turn, status |-> game.status,
     result |-> game.result, ended_reason |-> game.ended_reason,
     winner_id |-> game.winner, loser_id |-> game.loser,
     player_color |-> IF game.white_player = user THEN "white" ELSE "black",
     opponent_type |-> game.opponent_type, last_move |-> game.last_move]

\* build_game_state: the stored fields of the row
build_game_state(game, user) ==
    [fen |-> game.fen_position, move_history |-> game.move_history,
     white_time |-> game.white_time, black_time |-> game.black_time,
     current_turn |-> game.current_turn, status |-> game.status,
     result |-> game.result, ended_reason |-> game.ended_reason,
     winner_id |-> game.winner, loser_id |-> game.loser,
     player_color |-> IF game.white_player = user THEN "white" ELSE "black",
     opponent_type |-> game.opponent_type, last_move |-> game.last_move]

\* the game_state frame of connect
StateMsg(user, game) ==
    [to |-> user, type |-> "game_state", info |-> game.status,
     state |-> build_game_state(game, user)]

\* a registry test that never finds the match id
InRegistry_never == FALSE

\* `self.game_id in ACTIVE_TIMER_TASKS`
InRegistry == timer.pc # "none"

\* start_timer_task: nothing when the registry holds the match id, else a
\* new timer_loop task is created and registered
start_timer_task ==
    IF InRegistry
    THEN UNCHANGED <<timer, tasks>>
    ELSE /\ timer' = [pc |-> "load", game |-> None, loser |-> None]
         /\ tasks' = tasks + 1

\* connect: an unauthenticated connection, an id with no row and a user who
\* is neither side are each answered with an error frame and closed before
\* group_add; a participant joins the group, gets the snapshot, and the
\* timer task is started unless the registry holds one
Connect(user, game_id) ==
    /\ conn[user].pc = "closed"
    /\ IF user = AnonymousUser
          THEN /\ out' = Rejected(user, "auth_failed", "4401")
               /\ UNCHANGED <<conn, timer, tasks>>
       ELSE IF get_game(game_id) = <<>>
          THEN /\ out' = Rejected(user, "game_not_found", "4404")
               /\ UNCHANGED <<conn, timer, tasks>>
       ELSE IF ~is_user_in_game(get_game(game_id)[1], user)
          THEN /\ out' = Rejected(user, "not_in_game", "4403")
               /\ UNCHANGED <<conn, timer, tasks>>
       ELSE /\ conn' = [conn EXCEPT
                          ![user] = [pc |-> "idle", game |-> None, uci |-> <<>>]]
            /\ start_timer_task
            /\ out' = <<StateMsg(user, get_game(game_id)[1])>>
    /\ UNCHANGED <<db, now, credits, coins, ops, turn_since>>
    /\ UNCHANGED <<inviteVars, fanoutVars, walletVars>>

\* disconnect: group_discard, nothing else
Disconnect(u) ==
    /\ conn[u].pc = "idle"
    /\ conn' = [conn EXCEPT ![u] = IdleConn]
    /\ out' = <<>>
    /\ UNCHANGED <<db, now, timer, credits, coins, ops, turn_since>>
    /\ UNCHANGED <<inviteVars, fanoutVars, tasks, walletVars>>

\* handle_move up to the call of apply_move: get_game, the status guard,
\* is_user_turn, the from/to guard
MoveLoad(u, from_to, promotion) ==
    /\ conn[u].pc = "idle"
    /\ LET game == db
           promo == content_get_promotion(promotion)
       IN  IF game.status # "IN_PROGRESS"
           THEN /\ out' = <<>>
                /\ UNCHANGED <<conn, ops>>
           ELSE IF ~is_user_turn(game, u)
           THEN /\ out' = <<Msg(u, "error", "not_your_turn")>>
                /\ UNCHANGED <<conn, ops>>
           ELSE IF from_to = ""
           THEN /\ out' = <<Msg(u, "error", "bad_move")>>
                /\ UNCHANGED <<conn, ops>>
           ELSE /\ ops < MaxOps
                /\ ops' = ops + 1
                /\ out' = <<>>
                /\ conn' = [conn EXCEPT ![u] =
                              [pc |-> "move", game |-> game, uci |-> <<from_to, promo>>]]
    /\ UNCHANGED <<db, now, timer, credits, coins, turn_since>>
    /\ UNCHANGED <<inviteVars, fanoutVars, tasks, walletVars>>

\* handle_move from apply_move on: the save, the broadcasts
MoveApply(u) ==
    /\ conn[u].pc = "move"
    /\ LET r == apply_move(conn[u].game, conn[u].uci[1], conn[u].uci[2], now)
       IN  IF ~r.updated
           THEN /\ out' = <<Msg(u, "error", "illegal_move")>>
                /\ conn' = [conn EXCEPT ![u] = [pc |-> "idle", game |-> None, uci |-> <<>>]]
                /\ UNCHANGED <<db, credits, coins>>
           ELSE /\ db' = r.game
                /\ add_coins(r.awards)
                /\ out' = MovePayloads(r.game, r.over)
                /\ conn' = [conn EXCEPT ![u] =
                              [pc |-> IF next_is_bot(r.game) THEN "bot" ELSE "idle",
                               game |-> None, uci |-> <<>>]]
    /\ TrackTurn
    /\ UNCHANGED <<now, timer, ops>>
    /\ UNCHANGED <<inviteVars, fanoutVars, tasks, walletVars>>

\* apply_bot_move up to the oracle: get_game and the two guards
BotLoad(u) ==
    /\ conn[u].pc = "bot"
    /\ IF db.status # "IN_PROGRESS" \/ db.current_turn # "black"
       THEN conn' = [conn EXCEPT ![u] = [pc |-> "idle", game |-> None, uci |-> <<>>]]
       ELSE conn' = [conn EXCEPT ![u] = [pc |-> "oracle", game |-> db, uci |-> <<>>]]
    /\ out' = <<>>
    /\ UNCHANGED <<db, now, timer, credits, coins, ops, turn_since>>
    /\ UNCHANGED <<inviteVars, fanoutVars, tasks, walletVars>>

\* get_stockfish_move: a legal move of the board it was given, or None
OracleMoves(game) ==
    LegalMoves(game.fen_position)

\* apply_bot_move: the oracle gave no move
BotNoMove(u) ==
    /\ conn[u].pc = "oracle"
    /\ conn' = [conn EXCEPT ![u] = [pc |-> "idle", game |-> None, uci |-> <<>>]]
    /\ out' = <<>>
    /\ UNCHANGED <<db, now, timer, credits, coins, ops, turn_since>>
    /\ UNCHANGED <<inviteVars, fanoutVars, tasks, walletVars>>

\* apply_bot_move: the oracle's move goes through apply_move
BotApply(u) ==
    /\ conn[u].pc = "oracle"
    /\ \E mv \in OracleMoves(conn[u].game) :
         LET r == apply_move(conn[u].game, mv[1], mv[2], now)
         IN  IF ~r.updated
             THEN /\ out' = <<>>
                  /\ UNCHANGED <<db, credits, coins>>
             ELSE /\ db' = r.game
                  /\ add_coins(r.awards)
                  /\ out' = MovePayloads(r.game, r.over)
    /\ conn' = [conn EXCEPT ![u] = [pc |-> "idle", game |-> None, uci |-> <<>>]]
    /\ TrackTurn
    /\ UNCHANGED <<now, timer, ops>>
    /\ UNCHANGED <<inviteVars, fanoutVars, tasks, walletVars>>

\* handle_resign up to finish_game: get_game and the status guard
ResignLoad(u) ==
    /\ conn[u].pc = "idle"
    /\ IF db.status # "IN_PROGRESS"
       THEN UNCHANGED <<conn, ops>>
       ELSE /\ ops < MaxOps
            /\ ops' = ops + 1
            /\ conn' = [conn EXCEPT ![u] = [pc |-> "resign", game |-> db, uci |-> <<>>]]
    /\ out' = <<>>
    /\ UNCHANGED <<db, now, timer, credits, coins, turn_since>>
    /\ UNCHANGED <<inviteVars, fanoutVars, tasks, walletVars>>

\* handle_resign: finish_game(game, loser=self.user, 'resign') and the broadcast
ResignApply(u) ==
    /\ conn[u].pc = "resign"
    /\ LET r == finish_game_sync(conn[u].game, None, u, "resign")
       IN  /\ db' = IF r.ran THEN r.game ELSE db
           /\ add_coins(r.awards)
           /\ out' = <<GameOverMsg(r.game)>>
    /\ conn' = [conn EXCEPT ![u] = [pc |-> "idle", game |-> None, uci |-> <<>>]]
    /\ TrackTurn
    /\ UNCHANGED <<now, timer, ops>>
    /\ UNCHANGED <<inviteVars, fanoutVars, tasks, walletVars>>

\* ------------------------------------------------------------ timer_loop
\* get_timer_state
get_timer_state(game, t) ==
    LET elapsed == get_elapsed_seconds(game, t)
        white_time == IF game.current_turn = "white"
                      THEN Debit(game.white_time, elapsed) ELSE game.white_time
        black_time == IF game.current_turn = "white"
                      THEN game.black_time ELSE Debit(game.black_time, elapsed)
        timeout == IF game.current_turn = "white" THEN white_time <= 0 ELSE black_time <= 0
    IN  [white_time |-> white_time, black_time |-> black_time, timeout |-> timeout,
         loser |-> IF ~timeout THEN None
                   ELSE IF game.current_turn = "white" THEN game.white_player
                   ELSE get_black_player(game)]

\* top of the loop: get_game; the task ends and leaves the registry when
\* the match is not IN_PROGRESS
TimerLoad ==
    /\ timer.pc = "load"
    /\ IF db.status # "IN_PROGRESS"
       THEN /\ timer' = IdleTimer
            /\ tasks' = tasks - 1
       ELSE /\ timer' = [pc |-> "state", game |-> db, loser |-> None]
            /\ tasks' = tasks
    /\ out' = <<>>
    /\ UNCHANGED <<db, now, conn, credits, coins, ops, turn_since>>
    /\ UNCHANGED <<inviteVars, fanoutVars, walletVars>>

\* a tick that saves the clocks it has debited
TimerState_saving ==
    /\ timer.pc = "state"
    /\ LET ts == get_timer_state(timer.game, now)
       IN  IF ts.timeout
           THEN /\ timer' = [timer EXCEPT !.pc = "finish", !.loser = ts.loser]
                /\ out' = <<>>
                /\ db' = db
           ELSE /\ timer' = [pc |-> "load", game |-> None, loser |-> None]
                /\ out' = <<Msg("group", "timer_update", "")>>
                /\ db' = [db EXCEPT !.white_time = ts.white_time,
                                    !.black_time = ts.black_time]
    /\ UNCHANGED <<now, conn, credits, coins, ops, turn_since>>
    /\ UNCHANGED <<inviteVars, fanoutVars, tasks, walletVars>>

\* get_timer_state on the loaded copy: a timer_update, or a detected timeout
TimerState ==
    /\ timer.pc = "state"
    /\ LET ts == get_timer_state(timer.game, now)
       IN  IF ts.timeout
           THEN /\ timer' = [timer EXCEPT !.pc = "finish", !.loser = ts.loser]
                /\ out' = <<>>
           ELSE /\ timer' = [pc |-> "load", game |-> None, loser |-> None]
                /\ out' = <<Msg("group", "timer_update", "")>>
    /\ UNCHANGED <<db, now, conn, credits, coins, ops, turn_since>>
    /\ UNCHANGED <<inviteVars, fanoutVars, tasks, walletVars>>

\* finish_game(game, loser=..., 'timeout'), the broadcast, the end of the task
TimerFinish ==
    /\ timer.pc = "finish"
    /\ LET r == finish_game_sync(timer.game, None, timer.loser, "timeout")
       IN  /\ db' = IF r.ran THEN r.game ELSE db
           /\ add_coins(r.awards)
           /\ out' = <<GameOverMsg(r.game)>>
    /\ timer' = IdleTimer
    /\ tasks' = tasks - 1
    /\ TrackTurn
    /\ UNCHANGED <<now, conn, ops>>
    /\ UNCHANGED <<inviteVars, fanoutVars, walletVars>>

\* ------------------------------------------------- request/response views
\* request.data.get('fen') and request.data.get('move') of a body without
\* those keys, such as the {from, to, promotion} body of the move tests
NoFen == [sq |-> 0 - 1, turn |-> None]
NoMove == <<>>

\* the bodies a client posts: the position after a legal move of the stored
\* position together with that move, or a body without fen and move
ClientMoves(game) == LegalMoves(game.fen_position) \cup {NoMove}
ClientFen(game, move) ==
    IF move = NoMove THEN NoFen ELSE Push(game.fen_position, move)

\* ChessGameStateView.post
RestMove(u, fen, move) ==
    /\ is_user_in_game(db, u)
    /\ LET game == db
           player_color == IF game.white_player = u THEN "white" ELSE "black"
       IN  IF game.status # "IN_PROGRESS"
           THEN /\ out' = <<Msg(u, "http400", "finished")>>
                /\ UNCHANGED <<db, ops>>
           ELSE IF game.current_turn # player_color
           THEN /\ out' = <<Msg(u, "http400", "not_your_turn")>>
                /\ UNCHANGED <<db, ops>>
           ELSE IF fen = NoFen \/ move = NoMove
           THEN /\ out' = <<Msg(u, "http400", "fen_and_move_required")>>
                /\ UNCHANGED <<db, ops>>
           ELSE /\ ops < MaxOps
                /\ ops' = ops + 1
                /\ db' = [game EXCEPT !.fen_position = fen,
                                      !.last_move = move,
                                      !.current_turn = Other(player_color)]
                /\ out' = <<Msg(u, "http200", "move")>>
    /\ TrackTurn
    /\ UNCHANGED <<now, conn, timer, credits, coins>>
    /\ UNCHANGED <<inviteVars, fanoutVars, tasks, walletVars>>

\* ChessFinishGameView.post with ChessGameFinishSerializer
RestFinish(u, result) ==
    /\ is_user_in_game(db, u)
    /\ IF db.status # "IN_PROGRESS"
       THEN /\ out' = <<Msg(u, "http400", "finished")>>
            /\ UNCHANGED <<db, credits, coins, ops>>
       ELSE LET c == views_reward(db.opponent_type, db.bot_level, result)
            IN  /\ ops < MaxOps
                /\ ops' = ops + 1
                /\ db' = [db EXCEPT !.result = result, !.status = "FINISHED",
                                    !.coins_earned = c]
                /\ add_coins(IF c > 0 THEN <<[user |-> u, amount |-> c]>> ELSE <<>>)
                /\ out' = <<Msg(u, "http200", "finish")>>
    /\ UNCHANGED <<now, conn, timer, turn_since>>
    /\ UNCHANGED <<inviteVars, fanoutVars, tasks, walletVars>>

\* ------------------------------------------------------------- wall clock
AdvanceTime ==
    /\ now < MaxNow
    /\ now' = now + 1
    /\ out' = <<>>
    /\ UNCHANGED <<db, conn, timer, credits, coins, ops, turn_since>>
    /\ UNCHANGED <<inviteVars, fanoutVars, tasks, walletVars>>

\* a client's post to the move endpoint
RestPost(u) ==
    \E mv \in ClientMoves(db) : RestMove(u, ClientFen(db, mv), mv)

\* the consumers and the timer task
NextWS ==
    \/ \E u \in {x \in Users : is_user_in_game(db, x)} : Connect(u, "match")
    \/ \E u \in Users, ft \in FromTos, pr \in Promotions : MoveLoad(u, ft, pr)
    \/ \E u \in Users : MoveApply(u)
    \/ \E u \in Users : BotLoad(u)
    \/ \E u \in Users : BotNoMove(u)
    \/ \E u \in Users : BotApply(u)
    \/ \E u \in Users : ResignLoad(u)
    \/ \E u \in Users : ResignApply(u)
    \/ TimerLoad
    \/ TimerState
    \/ TimerFinish
    \/ AdvanceTime

\* the consumers, the timer task and the request/response views
Next ==
    \/ NextWS
    \/ \E u \in Users : RestPost(u)
    \/ \E u \in Users, res \in {"WIN", "LOSE", "DRAW"} : RestFinish(u, res)

\* every entry point that writes the match
Spec == Init /\ [][Next]_vars

\* the WebSocket consumers and the timer task only
SpecWS == Init /\ [][NextWS]_vars

\* a handler holds a copy of the row it has not yet finished with
Busy ==
    \/ \E u \in Users : conn[u].pc \in {"move", "resign", "oracle"}
    \/ timer.pc \in {"state", "finish"}

\* the schedules in which every handler runs from its read of the row to
\* its last use of the copy before another handler starts or time passes
NextSeq ==
    \/ ~Busy /\ Next
    \/ /\ Busy
       /\ \/ \E u \in Users : MoveApply(u)
          \/ \E u \in Users : BotNoMove(u)
          \/ \E u \in Users : BotApply(u)
          \/ \E u \in Users : ResignApply(u)
          \/ TimerState
          \/ TimerFinish

\* every entry point, one handler at a time and no time passing inside one
SpecSeq == Init /\ [][NextSeq]_vars

\* the consumers and the timer task, with connections that come and go
NextLife ==
    \/ NextWS
    \/ \E u \in Users : Disconnect(u)

SpecLife == Init /\ [][NextLife]_vars

\* the same with the scheduling of the event loop: a timer task that can
\* take its next step takes it, and time goes on up to the horizon
SpecLive ==
    /\ Init /\ [][NextLife]_vars
    /\ WF_vars(TimerLoad) /\ WF_vars(TimerState) /\ WF_vars(TimerFinish)
    /\ WF_vars(AdvanceTime)

\* ------------------------------------------- persisting, then publishing
\* a frame for the group: nr is the rank of the move among the moves
\* persisted for the match (0 on a game_over that no move caused)
Frame(type, info, nr) == [to |-> "group", type |-> type, info |-> info, nr |-> nr]

RECURSIVE MovesIn(_)
MovesIn(frames) ==
    IF frames = <<>> THEN 0
    ELSE (IF Head(frames).type = "move" THEN 1 ELSE 0) + MovesIn(Tail(frames))

\* the number of moves persisted so far: every one has its move frame
\* either published or waiting with the handler that persisted it
Accepted == MovesIn(sent) + MovesIn(outbox["p1"]) + MovesIn(outbox["p2"])

\* the two group_send calls in the wrong order
MoveFrames_overfirst(game, over, nr) ==
    (IF over THEN <<Frame("game_over", game.ended_reason, nr)>> ELSE <<>>)
    \o <<Frame("move", game.last_move[1], nr)>>

\* the frames handle_move sends after apply_move: broadcast_move, then
\* broadcast_game_over when the payload embeds one
MoveFrames(game, over, nr) ==
    <<Frame("move", game.last_move[1], nr)>>
    \o (IF over THEN <<Frame("game_over", game.ended_reason, nr)>> ELSE <<>>)

\* handle_move: the await of apply_move
MovePersist(u) ==
    /\ conn[u].pc = "move"
    /\ LET r == apply_move(conn[u].game, conn[u].uci[1], conn[u].uci[2], now)
       IN  IF ~r.updated
           THEN /\ out' = <<Msg(u, "error", "illegal_move")>>
                /\ conn' = [conn EXCEPT ![u] = [pc |-> "idle", game |-> None, uci |-> <<>>]]
                /\ UNCHANGED <<db, credits, coins, outbox>>
           ELSE /\ db' = r.game
                /\ add_coins(r.awards)
                /\ out' = <<>>
                /\ outbox' = [outbox EXCEPT ![u] = MoveFrames(r.game, r.over, Accepted + 1)]
                /\ conn' = [conn EXCEPT ![u] =
                              [pc |-> IF next_is_bot(r.game) THEN "send_bot" ELSE "send",
                               game |-> None, uci |-> <<>>]]
    /\ TrackTurn
    /\ UNCHANGED <<now, timer, ops, sent, tasks>>
    /\ UNCHANGED <<inviteVars, walletVars>>

\* handle_move: the await of apply_bot_move from the oracle's answer on
BotPersist(u) ==
    /\ conn[u].pc = "oracle"
    /\ \E mv \in OracleMoves(conn[u].game) :
         LET r == apply_move(conn[u].game, mv[1], mv[2], now)
         IN  IF ~r.updated
             THEN /\ conn' = [conn EXCEPT ![u] = [pc |-> "idle", game |-> None, uci |-> <<>>]]
                  /\ UNCHANGED <<db, credits, coins, outbox>>
             ELSE /\ db' = r.game
                  /\ add_coins(r.awards)
                  /\ outbox' = [outbox EXCEPT ![u] = MoveFrames(r.game, r.over, Accepted + 1)]
                  /\ conn' = [conn EXCEPT ![u] = [pc |-> "send", game |-> None, uci |-> <<>>]]
    /\ out' = <<>>
    /\ TrackTurn
    /\ UNCHANGED <<now, timer, ops, sent, tasks>>
    /\ UNCHANGED <<inviteVars, walletVars>>

\* handle_resign: the await of finish_game
ResignPersist(u) ==
    /\ conn[u].pc = "resign"
    /\ LET r == finish_game_sync(conn[u].game, None, u, "resign")
       IN  /\ db' = IF r.ran THEN r.game ELSE db
           /\ add_coins(r.awards)
           /\ outbox' = [outbox EXCEPT ![u] = <<Frame("game_over", r.game.ended_reason, 0)>>]
    /\ conn' = [conn EXCEPT ![u] = [pc |-> "send", game |-> None, uci |-> <<>>]]
    /\ out' = <<>>
    /\ TrackTurn
    /\ UNCHANGED <<now, timer, ops, sent, tasks>>
    /\ UNCHANGED <<inviteVars, walletVars>>

\* one await of channel_layer.group_send in handle_move or handle_resign;
\* after the last one handle_move goes on to the bot when next_is_bot
Publish(u) ==
    /\ conn[u].pc \in {"send", "send_bot"}
    /\ out' = <<Head(outbox[u])>>
    /\ sent' = Append(sent, Head(outbox[u]))
    /\ outbox' = [outbox EXCEPT ![u] = Tail(@)]
    /\ conn' = IF Tail(outbox[u]) # <<>> THEN conn
               ELSE [conn EXCEPT ![u] =
                       [pc |-> IF conn[u].pc = "send_bot" THEN "bot" ELSE "idle",
                        game |-> None, uci |-> <<>>]]
    /\ UNCHANGED <<db, now, timer, credits, coins, ops, turn_since, tasks>>
    /\ UNCHANGED <<inviteVars, walletVars>>

\* timer_loop: the await of finish_game on a detected timeout
TimerPersist ==
    /\ timer.pc = "finish"
    /\ LET r == finish_game_sync(timer.game, None, timer.loser, "timeout")
       IN  /\ db' = IF r.ran THEN r.game ELSE db
           /\ add_coins(r.awards)
           /\ outbox' = [outbox EXCEPT !["timer"] = <<Frame("game_over", r.game.ended_reason, 0)>>]
    /\ timer' = [pc |-> "send", game |-> None, loser |-> None]
    /\ out' = <<>>
    /\ TrackTurn
    /\ UNCHANGED <<now, conn, ops, sent, tasks>>
    /\ UNCHANGED <<inviteVars, walletVars>>

\* timer_loop: the group_send of the game_over, the break and the pop
TimerPublish ==
    /\ timer.pc = "send"
    /\ out' = outbox["timer"]
    /\ sent' = sent \o outbox["timer"]
    /\ outbox' = [outbox EXCEPT !["timer"] = <<>>]
    /\ timer' = IdleTimer
    /\ tasks' = tasks - 1
    /\ UNCHANGED <<db, now, conn, credits, coins, ops, turn_since>>
    /\ UNCHANGED <<inviteVars, walletVars>>

\* the consumers and the timer task, each group_send a step of its own
NextFanout ==
    \/ \E u \in {x \in Users : is_user_in_game(db, x)} : Connect(u, "match")
    \/ \E u \in Users, ft \in FromTos, pr \in Promotions : MoveLoad(u, ft, pr)
    \/ \E u \in Users : MovePersist(u)
    \/ \E u \in Users : BotLoad(u)
    \/ \E u \in Users : BotNoMove(u)
    \/ \E u \in Users : BotPersist(u)
    \/ \E u \in Users : ResignLoad(u)
    \/ \E u \in Users : ResignPersist(u)
    \/ \E u \in Users : Publish(u)
    \/ TimerLoad
    \/ TimerState
    \/ TimerPersist
    \/ TimerPublish
    \/ AdvanceTime

SpecFanout == Init /\ [][NextFanout]_vars

\* ------------------------------------------------- failing reward credits
\* the statements of add_coins that write: user.save(),
\* CoinTransaction.objects.create, CoinNotification.objects.create
FailAts == {"user.save", "CoinTransaction", "CoinNotification"}

\* add_coins over the credits in turn when statement fail_at of call k
\* raises: the calls before k ran whole; call k leaves the balance saved
\* once user.save() has run and the CoinTransaction row once it was created
add_coins_raises(awards, k, fail_at) ==
    LET done == SubSeq(awards, 1, k - 1)
        hit == awards[k]
    IN  /\ coins' = [x \in Users |->
                       coins[x] + SumFor(done, x)
                       + (IF x = hit.user /\ fail_at # "user.save"
                          THEN hit.amount ELSE 0)]
        /\ credits' = [x \in Users |->
                         credits[x] + CountFor(done, x)
                         + (IF x = hit.user /\ fail_at = "CoinNotification"
                            THEN 1 ELSE 0)]

\* handle_move when add_coins raises inside apply_move's finish_game_sync:
\* game.save() is not reached, the exception ends the consumer
MoveApplyRaises(u, k, fail_at) ==
    /\ conn[u].pc = "move"
    /\ LET r == apply_move(conn[u].game, conn[u].uci[1], conn[u].uci[2], now)
       IN  /\ r.updated
           /\ k \in 1..Len(r.awards)
           /\ add_coins_raises(r.awards, k, fail_at)
    /\ conn' = [conn EXCEPT ![u] = IdleConn]
    /\ out' = <<>>
    /\ UNCHANGED <<db, now, timer, ops, turn_since>>
    /\ UNCHANGED <<inviteVars, fanoutVars, tasks, walletVars>>

\* apply_bot_move when add_coins raises inside apply_move's finish_game_sync
BotApplyRaises(u, k, fail_at) ==
    /\ conn[u].pc = "oracle"
    /\ \E mv \in OracleMoves(conn[u].game) :
         LET r == apply_move(conn[u].game, mv[1], mv[2], now)
         IN  /\ r.updated
             /\ k \in 1..Len(r.awards)
             /\ add_coins_raises(r.awards, k, fail_at)
    /\ conn' = [conn EXCEPT ![u] = IdleConn]
    /\ out' = <<>>
    /\ UNCHANGED <<db, now, timer, ops, turn_since>>
    /\ UNCHANGED <<inviteVars, fanoutVars, tasks, walletVars>>

\* handle_resign when add_coins raises inside finish_game_sync
ResignApplyRaises(u, k, fail_at) ==
    /\ conn[u].pc = "resign"
    /\ LET r == finish_game_sync(conn[u].game, None, u, "resign")
       IN  /\ k \in 1..Len(r.awards)
           /\ add_coins_raises(r.awards, k, fail_at)
    /\ conn' = [conn EXCEPT ![u] = IdleConn]
    /\ out' = <<>>
    /\ UNCHANGED <<db, now, timer, ops, turn_since>>
    /\ UNCHANGED <<inviteVars, fanoutVars, tasks, walletVars>>

\* timer_loop when add_coins raises inside finish_game_sync: the task dies
\* before ACTIVE_TIMER_TASKS.pop, so its entry stays in the registry
TimerFinishRaises(k, fail_at) ==
    /\ timer.pc = "finish"
    /\ LET r == finish_game_sync(timer.game, None, timer.loser, "timeout")
       IN  /\ k \in 1..Len(r.awards)
           /\ add_coins_raises(r.awards, k, fail_at)
    /\ timer' = [pc |-> "dead", game |-> None, loser |-> None]
    /\ tasks' = tasks - 1
    /\ out' = <<>>
    /\ UNCHANGED <<db, now, conn, ops, turn_since>>
    /\ UNCHANGED <<inviteVars, fanoutVars, walletVars>>

\* the consumers and the timer task with database errors in add_coins
NextRaises ==
    \/ NextWS
    \/ \E u \in Users, k \in 1..2, f \in FailAts : MoveApplyRaises(u, k, f)
    \/ \E u \in Users, k \in 1..2, f \in FailAts : BotApplyRaises(u, k, f)
    \/ \E u \in Users, k \in 1..2, f \in FailAts : ResignApplyRaises(u, k, f)
    \/ \E k \in 1..2, f \in FailAts : TimerFinishRaises(k, f)

SpecRaises == Init /\ [][NextRaises]_vars

\* the consumers and the timer task, with connections opened by anyone for
\* any game id
NextConnect ==
    \/ \E c \in Clients, game_id \in GameIds : Connect(c, game_id)
    \/ NextWS

SpecConnect == Init /\ [][NextConnect]_vars

\* ------------------------------------------------------- the invite views
MaxInvites == 2      \* ChessInvite rows the views may create

\* ChessInvite.objects.create(from_player=..., to_player=...); game = 0 is
\* the null foreign key, otherwise the index in made of the linked match
NewInvite(from_player, to_player) ==
    [from_player |-> from_player, to_player |-> to_player,
     status |-> "PENDING", game |-> 0]

\* primary keys a client may name, one of them of no row
InviteIds == 1..(MaxInvites + 1)

\* ChessInvite.objects.get(pk=..., <side>=request.user, status=PENDING) finds a row
PendingFor(id, side, u) ==
    /\ id \in 1..Len(invites)
    /\ invites[id][side] = u
    /\ invites[id].status = "PENDING"

\* the `existing` query of ChessInviteView.post
ExistingPending(u, t) ==
    \E i \in 1..Len(invites) :
        /\ invites[i].from_player = u
        /\ invites[i].to_player = t
        /\ invites[i].status = "PENDING"


\* ChessInviteView.post up to the create: the serializer and the
\* `existing` query
InviteCheck(r, u, t) ==
    /\ req[r].pc = "idle"
    /\ IF t = u
       THEN /\ out' = <<Msg(u, "http400", "self_invite")>>
            /\ UNCHANGED req
       ELSE IF ExistingPending(u, t)
       THEN /\ out' = <<Msg(u, "http400", "already_sent")>>
            /\ UNCHANGED req
       ELSE /\ Len(invites) + Cardinality({q \in Reqs : req[q].pc = "create"})
                  < MaxInvites
            /\ out' = <<>>
            /\ req' = [req EXCEPT ![r] = [IdleReq EXCEPT !.pc = "create",
                                                         !.user = u, !.to = t]]
    /\ UNCHANGED <<invites, made>>
    /\ UNCHANGED <<matchVars, fanoutVars, walletVars>>

\* ChessInviteView.post: ChessInvite.objects.create and the 201
InviteInsert(r) ==
    /\ req[r].pc = "create"
    /\ invites' = Append(invites, NewInvite(req[r].user, req[r].to))
    /\ out' = <<Msg(req[r].user, "http201", "invite")>>
    /\ req' = [req EXCEPT ![r] = IdleReq]
    /\ UNCHANGED made
    /\ UNCHANGED <<matchVars, fanoutVars, walletVars>>

\* ChessRespondInviteView.post up to the branch on accept: the get of the
\* PENDING row addressed to request.user
RespondLoad(r, u, id, accept) ==
    /\ req[r].pc = "idle"
    /\ IF PendingFor(id, "to_player", u)
       THEN /\ out' = <<>>
            /\ req' = [req EXCEPT ![r] = [IdleReq EXCEPT !.pc = "respond", !.user = u,
                                                         !.id = id, !.accept = accept]]
       ELSE /\ out' = <<Msg(u, "http404", "invite")>>
            /\ UNCHANGED req
    /\ UNCHANGED <<invites, made>>
    /\ UNCHANGED <<matchVars, fanoutVars, walletVars>>

\* ChessGame.objects.create of ChessRespondInviteView.post
InviteGame(invite, white_player) ==
    [NewGame("STUDENT", None, invite.to_player, white_player)
        EXCEPT !.player = invite.from_player]

\* ChessRespondInviteView.post from the branch on: the game is created and
\* the loaded row saved as ACCEPTED with it, or saved as DECLINED
RespondSave(r) ==
    /\ req[r].pc = "respond"
    /\ LET id == req[r].id
           row == [NewInvite(invites[id].from_player, invites[id].to_player)
                     EXCEPT !.status = IF req[r].accept THEN "ACCEPTED" ELSE "DECLINED"]
       IN  IF req[r].accept
           THEN \E white \in {row.from_player, row.to_player} :
                  /\ made' = Append(made, [invite |-> id, game |-> InviteGame(row, white)])
                  /\ invites' = [invites EXCEPT ![id] = [row EXCEPT !.game = Len(made) + 1]]
           ELSE /\ invites' = [invites EXCEPT ![id] = row]
                /\ UNCHANGED made
    /\ out' = <<Msg(req[r].user, "http200", IF req[r].accept THEN "accepted" ELSE "declined")>>
    /\ req' = [req EXCEPT ![r] = IdleReq]
    /\ UNCHANGED <<matchVars, fanoutVars, walletVars>>

\* ChessCancelInviteView.post up to the save: the get of the PENDING row
\* sent by request.user
CancelLoad(r, u, id) ==
    /\ req[r].pc = "idle"
    /\ IF PendingFor(id, "from_player", u)
       THEN /\ out' = <<>>
            /\ req' = [req EXCEPT ![r] = [IdleReq EXCEPT !.pc = "cancel", !.user = u,
                                                         !.id = id]]
       ELSE /\ out' = <<Msg(u, "http404", "invite")>>
            /\ UNCHANGED req
    /\ UNCHANGED <<invites, made>>
    /\ UNCHANGED <<matchVars, fanoutVars, walletVars>>

\* ChessCancelInviteView.post: the loaded row saved as EXPIRED
CancelSave(r) ==
    /\ req[r].pc = "cancel"
    /\ LET id == req[r].id
       IN  invites' = [invites EXCEPT ![id] =
                         [NewInvite(invites[id].from_player, invites[id].to_player)
                            EXCEPT !.status = "EXPIRED"]]
    /\ out' = <<Msg(req[r].user, "http200", "cancelled")>>
    /\ req' = [req EXCEPT ![r] = IdleReq]
    /\ UNCHANGED made
    /\ UNCHANGED <<matchVars, fanoutVars, walletVars>>

NextInvite ==
    \/ \E r \in Reqs, u \in Users, t \in Users : InviteCheck(r, u, t)
    \/ \E r \in Reqs : InviteInsert(r)
    \/ \E r \in Reqs, u \in Users, id \in InviteIds, accept \in BOOLEAN :
          RespondLoad(r, u, id, accept)
    \/ \E r \in Reqs : RespondSave(r)
    \/ \E r \in Reqs, u \in Users, id \in InviteIds : CancelLoad(r, u, id)
    \/ \E r \in Reqs : CancelSave(r)

\* the invite views, two requests at a time
SpecInvite == Init /\ [][NextInvite]_vars

\* ------------------------------------------------- finish, called directly
EndReasons == {"checkmate", "timeout", "resign", "draw"}
Identities == Users \cup {None}

\* the rows a first finish_game_sync leaves
FinishedGames ==
    {finish_game_sync(g, w, l, r).game :
        g \in BotGames \cup PvpGames, w \in Identities, l \in Identities,
        r \in EndReasons}

InitFinish ==
    /\ db \in FinishedGames
    /\ now = 0
    /\ conn = [u \in Clients |-> IdleConn]
    /\ timer = IdleTimer
    /\ credits = [u \in Users |-> 0]
    /\ coins = [u \in Users |-> 0]
    /\ ops = 0
    /\ turn_since = 0
    /\ out = <<>>
    /\ invites = <<>>
    /\ made = <<>>
    /\ req = [r \in Reqs |-> IdleReq]
    /\ outbox = [p \in Publishers |-> <<>>]
    /\ sent = <<>>
    /\ tasks = 0
    /\ balance = [u \in Users |-> 0]
    /\ ledger = <<>>
    /\ held = [f \in Finishers |-> NoRows]

\* one more finish_game_sync(game, winner, loser, ended_reason) on the row
FinishAgain(winner, loser, ended_reason) ==
    /\ ops < MaxOps
    /\ LET r == finish_game_sync(db, winner, loser, ended_reason)
       IN  /\ db' = r.game
           /\ add_coins(r.awards)
           /\ out' = <<FinishPayload(r.game)>>
    /\ ops' = ops + 1
    /\ UNCHANGED <<now, conn, timer, turn_since>>
    /\ UNCHANGED <<inviteVars, fanoutVars, tasks, walletVars>>

NextFinish ==
    \E w \in Identities, l \in Identities, r \in EndReasons : FinishAgain(w, l, r)

\* finish_game_sync called again and again on a finished row
SpecFinish == InitFinish /\ [][NextFinish]_vars

\* --------------------------------------------- the reward lookups, called directly
Results == {"WIN", "DRAW", "LOSE"}
\* the (opponent_type, bot_level) pairs a ChessGame row can hold
RewardKeys ==
    {<<"BOT", lvl>> : lvl \in BotLevels} \cup {<<"STUDENT", None>>}
Callers == {"consumers", "views"}

\* the record of one lookup: who asked, for what, and the amount returned
Lookup(caller, key, result) ==
    [caller |-> caller, opponent_type |-> key[1], bot_level |-> key[2],
     result |-> result,
     amount |-> IF caller = "consumers"
                THEN calculate_reward(key[1], key[2], result)
                ELSE views_reward(key[1], key[2], result)]

\* one lookup; the lookups made so far are kept in out
Calculate(caller, key, result) ==
    /\ Len(out) < MaxOps
    /\ out' = Append(out, Lookup(caller, key, result))
    /\ UNCHANGED <<db, now, conn, timer, credits, coins, ops, turn_since>>
    /\ UNCHANGED <<inviteVars, fanoutVars, tasks, walletVars>>

NextReward ==
    \E caller \in Callers, key \in RewardKeys, result \in Results :
        Calculate(caller, key, result)

\* calculate_reward and the finish view's table lookup, on every input
SpecReward == Init /\ [][NextReward]_vars

\* ------------------------------- the resolution of a move, called directly
\* the positions a move is resolved against: the initial one and those one
\* legal move away from it
Positions == {InitialFen} \cup {Push(InitialFen, m) : m \in LegalMoves(InitialFen)}

\* handle_move's reading of the message and apply_move's answer on a row
\* that holds the position: what was sent, the uci string built from it and
\* whether the move was applied
Resolution(game, board, from_to, promotion) ==
    LET row == [game EXCEPT !.fen_position = board, !.current_turn = board.turn]
        promo == content_get_promotion(promotion)
    IN  [board |-> board, from_to |-> from_to, promotion |-> promotion,
         uci |-> <<from_to, promo>>,
         accepted |-> apply_move(row, from_to, promo, now).updated]

\* one submission; the submissions made so far are kept in out
Resolve(board, from_to, promotion) ==
    /\ Len(out) < MaxOps
    /\ out' = Append(out, Resolution(db, board, from_to, promotion))
    /\ UNCHANGED <<db, now, conn, timer, credits, coins, ops, turn_since>>
    /\ UNCHANGED <<inviteVars, fanoutVars, tasks, walletVars>>

NextPromo ==
    \E board \in Positions, from_to \in MoveNames, promotion \in Promotions :
        Resolve(board, from_to, promotion)

\* the promotion default and the legality test, on every position and message
SpecPromo == Init /\ [][NextPromo]_vars

\* ------------------------------------- the balance and its audit records
\* the CoinTransaction rows add_coins writes for the credits of one finish,
\* each on the user row the handler holds: user.balance += amount,
\* user.save(), balance_after = user.balance
RECURSIVE Transactions(_, _)
Transactions(awards, rows) ==
    IF awards = <<>> THEN <<>>
    ELSE <<[user |-> Head(awards).user, amount |-> Head(awards).amount,
            balance_after |-> rows[Head(awards).user] + Head(awards).amount]>>
         \o Transactions(Tail(awards), rows)

\* user.save() of add_coins: the held row, with the amount added, replaces
\* the persisted one
SavedBalance(awards, rows) ==
    [u \in Users |-> IF CountFor(awards, u) > 0
                     THEN rows[u] + SumFor(awards, u) ELSE balance[u]]

\* get_game of a handler that is about to finish a match of the
\* participants: select_related loads the user rows with the game
FinisherLoad(f) ==
    /\ held[f].pc = "idle"
    /\ Len(ledger) < MaxCredits
    /\ held' = [held EXCEPT ![f] = [pc |-> "loaded", balance |-> balance]]
    /\ UNCHANGED <<balance, ledger>>
    /\ UNCHANGED <<matchVars, out, inviteVars, fanoutVars>>

\* finish_game_sync of that handler on its own IN_PROGRESS match, created
\* as db was: the credits of award_chess_rewards go through add_coins
FinisherSave(f, winner, loser, ended_reason) ==
    /\ held[f].pc = "loaded"
    /\ LET r == finish_game_sync(db, winner, loser, ended_reason)
       IN  /\ balance' = SavedBalance(r.awards, held[f].balance)
           /\ ledger' = ledger \o Transactions(r.awards, held[f].balance)
           /\ out' = <<FinishPayload(r.game)>>
    /\ held' = [held EXCEPT ![f] = NoRows]
    /\ UNCHANGED <<matchVars, inviteVars, fanoutVars>>

NextWallet ==
    \/ \E f \in Finishers : FinisherLoad(f)
    \/ \E f \in Finishers, w \in Identities, l \in Identities, r \in EndReasons :
          FinisherSave(f, w, l, r)

\* matches of the same participants finished by two handlers at a time
SpecWallet == Init /\ [][NextWallet]_vars

\* ------------------------------------------------------------ vocabulary
\* the remaining time of a colour in a row
TimeOf(game, c) == IF c = "white" THEN game.white_time ELSE game.black_time

\* the identity playing a colour (None for the bot)
PlayerOf(game, c) == IF c = "white" THEN game.white_player ELSE get_black_player(game)

\* the consumer of u leaves apply_move in this step
MoveReturns(u) == conn[u].pc = "move" /\ conn'[u].pc # "move"

\* the move a consumer holds is in the legal-move set of the position it
\* resolves the move against
HoldsLegalMove(u) == conn[u].uci \in LegalMoves(conn[u].game.fen_position)

\* the on-move side of a row has no time left at wall time t
Expired(game, t) ==
    TimeOf(game, game.current_turn) - get_elapsed_seconds(game, t) <= 0

\* handlers that have read the row and whose pending step writes it
InFlight ==
    {u \in Users : \/ conn[u].pc = "move" /\ HoldsLegalMove(u)
                   \/ conn[u].pc = "resign"
                   \/ conn[u].pc = "oracle" /\ OracleMoves(conn[u].game) # {}}
    \cup (IF timer.pc = "finish" THEN {"timer"} ELSE {})

\* --------------------------------------------------------------- claims

\* C1: reward crediting runs at most once per payable outcome: no
\* participant is credited more than once for the same match, under every
\* interleaving of moves, resignations, timer ticks and bot moves.
C1_CreditedAtMostOnce == \A u \in Users : credits[u] <= 1

\* C2: once the persisted status is FINISHED no later operation changes
\* the status, outcome, end reason, winner, loser, position or move list.
C2_FinishedIsImmutable ==
    [][db.status = "FINISHED" =>
         /\ db'.status = db.status
         /\ db'.result = db.result
         /\ db'.ended_reason = db.ended_reason
         /\ db'.winner = db.winner
         /\ db'.loser = db.loser
         /\ db'.fen_position = db.fen_position
         /\ db'.move_history = db.move_history]_vars

\* C3: mutations of one match are serialized: at no instant are two of
\* move application, resignation, timeout finish and bot-move application
\* between their read of the row and their write of it.
C3_OneMutationInFlight == Cardinality(InFlight) <= 1

\* C4: while the match is IN_PROGRESS exactly one colour is to move, and a
\* move of the participant who is not on move is never applied, through
\* the WebSocket move message and through the move endpoint.
C4_OutOfTurnNeverApplied ==
    [][/\ db.status = "IN_PROGRESS" => db.current_turn \in Colors
       /\ \A u \in Users :
            (MoveReturns(u) /\ db' # db) => is_user_turn(db, u)]_vars

\* C5: a submitted move that is not in the legal-move set of the position
\* current when the handler read the match (the position the move is
\* resolved against) is rejected with an error to the submitter, and the
\* persisted match is unchanged and nothing is credited.
C5_IllegalMoveRejected ==
    [][\A u \in Users :
         (MoveReturns(u) /\ ~HoldsLegalMove(u)) =>
             /\ db' = db
             /\ credits' = credits
             /\ out' = <<Msg(u, "error", "illegal_move")>>]_vars

\* C5 witness: an illegal move has just been answered with the error
C5_Witness ==
    \E u \in Users : /\ out = <<Msg(u, "error", "illegal_move")>>
                     /\ db.status = "IN_PROGRESS"
                     /\ conn[u].pc = "idle"

\* C6: replaying the stored move list from the initial position reproduces
\* the stored position, whichever entry point accepted the moves.
C6_ReplayInvariant == Replay(db.move_history) = db.fen_position

\* C7: timeout takes precedence over a move: when a legal move reaches
\* apply_move while the on-move side's remaining time minus the elapsed
\* time is zero or below, the move is not applied and the match finishes
\* with end reason timeout and the on-move side as loser.
C7_TimeoutPrecedence ==
    [][\A u \in Users :
         (MoveReturns(u) /\ HoldsLegalMove(u) /\ Expired(conn[u].game, now)) =>
             /\ db'.status = "FINISHED"
             /\ db'.ended_reason = "timeout"
             /\ db'.loser = PlayerOf(conn[u].game, conn[u].game.current_turn)
             /\ db'.move_history = conn[u].game.move_history]_vars

\* C8: when a tick finds the on-move side's clock expired the match is
\* finished with end reason timeout, the on-move side as loser and the
\* other side as winner, in PvP and in bot matches.
C8_TimeoutNamesBothSides ==
    [][(timer.pc = "finish" /\ timer'.pc # "finish") =>
         /\ db'.status = "FINISHED"
         /\ db'.ended_reason = "timeout"
         /\ db'.loser = PlayerOf(timer.game, timer.game.current_turn)
         /\ db'.winner = PlayerOf(timer.game, Other(timer.game.current_turn))]_vars

\* C9: only the on-move side is debited, and only for time that passed
\* while it was on move: whenever a stored clock goes down, it is the clock
\* of the side on move, and it goes down by no more than the time since
\* that side got the move.
C9_OnlyOnMoveDebited ==
    [][\A c \in Colors :
         TimeOf(db', c) < TimeOf(db, c) =>
             /\ c = db.current_turn
             /\ (TimeOf(db, c) - TimeOf(db', c)) * TicksPerSecond
                    <= now - turn_since]_vars

C11_FinishIdempotent ==
    [][(db.status = "FINISHED" /\ ops' = ops + 1) =>
         /\ db' = db
         /\ credits' = credits
         /\ coins' = coins
         /\ out' = <<FinishPayload(db)>>]_vars

\* C11 witness: a match finished by checkmate has been finished twice more
C11_Witness ==
    /\ ops = 2
    /\ db.status = "FINISHED"
    /\ db.ended_reason = "checkmate"
    /\ db.winner = "p1"
    /\ out = <<FinishPayload(db)>>
    /\ credits = [u \in Users |-> 0]

\* C12: the reward calculator returns BOT/easy WIN=45 DRAW=10 LOSE=0,
\* BOT/medium WIN=75 DRAW=20 LOSE=0, BOT/hard WIN=100 DRAW=30 LOSE=0 and
\* PvP WIN=50 DRAW=20 LOSE=0, and the table of the finish endpoint gives
\* the same amounts.
C12_RewardTable ==
    \A i \in 1..Len(out) :
        LET q == out[i]
            win == CASE q.bot_level = "easy" -> 45 [] q.bot_level = "medium" -> 75
                     [] q.bot_level = "hard" -> 100 [] OTHER -> 50
            draw == CASE q.bot_level = "easy" -> 10 [] q.bot_level = "medium" -> 20
                      [] q.bot_level = "hard" -> 30 [] OTHER -> 20
        IN  q.amount = CASE q.result = "WIN" -> win [] q.result = "DRAW" -> draw
                         [] OTHER -> 0

\* C12 witness: the PvP win amount was looked up by the consumers and the
\* hard-bot draw amount by the finish view
C12_Witness ==
    /\ Len(out) = 2
    /\ out[1].caller = "consumers" /\ out[1].opponent_type = "STUDENT"
    /\ out[1].result = "WIN" /\ out[1].amount = 50
    /\ out[2].caller = "views" /\ out[2].bot_level = "hard"
    /\ out[2].result = "DRAW" /\ out[2].amount = 30

\* C13: reward policy on finish, whichever operation finishes the match: a
\* drawn PvP match pays the draw reward to both participants; a won PvP
\* match pays the win reward to one participant only, the recorded winner
\* when one is recorded; a bot match pays the human participant only, the
\* win or draw amount of the bot's level and nothing on a loss; no step
\* that does not finish the match pays anyone.
C13_RewardPolicy ==
    [][LET paid(u) == coins'[u] - coins[u]
           finishing == db.status = "IN_PROGRESS" /\ db'.status = "FINISHED"
       IN  IF ~finishing THEN coins' = coins
           ELSE IF db'.opponent_type = "BOT"
           THEN /\ paid(db'.player) =
                       (CASE db'.result = "WIN" ->
                                 CASE db'.bot_level = "easy" -> 45
                                   [] db'.bot_level = "medium" -> 75
                                   [] OTHER -> 100
                          [] db'.result = "DRAW" ->
                                 CASE db'.bot_level = "easy" -> 10
                                   [] db'.bot_level = "medium" -> 20
                                   [] OTHER -> 30
                          [] OTHER -> 0)
                /\ \A u \in Users \ {db'.player} : paid(u) = 0
           ELSE IF db'.result = "DRAW"
           THEN \A u \in {db'.player, db'.opponent} : paid(u) = 20
           ELSE \E w \in {db'.player, db'.opponent} :
                    /\ paid(w) = 50
                    /\ \A u \in Users \ {w} : paid(u) = 0
                    /\ db'.winner # None => w = db'.winner]_vars

\* C14: in every state of a match with an outcome set, winner and loser
\* are both null if and only if the outcome is DRAW, whichever operation
\* finished the match.
C14_NullSidesIffDraw ==
    db.result # None =>
        ((db.winner = None /\ db.loser = None) <=> db.result = "DRAW")

\* C15: a mating move that is legal on the board, submitted by the
\* participant on move with the promotion field left empty or set to 'q',
\* is accepted: a move event followed by a game-over event with end reason
\* checkmate, the mover as winner, the match FINISHED and exactly one
\* reward credit to the mover; a bot that mates is credited nothing.
C15_MateAccepted ==
    [][/\ \A u \in Users :
            (/\ MoveReturns(u)
             /\ conn[u].uci[1] = "mate"
             /\ <<"mate", "">> \in LegalMoves(conn[u].game.fen_position)) =>
                /\ db'.status = "FINISHED"
                /\ db'.ended_reason = "checkmate"
                /\ db'.winner = u
                /\ out' = <<Msg("group", "move", "mate"),
                            Msg("group", "game_over", "checkmate")>>
                /\ credits'[u] = credits[u] + 1
       /\ \A u \in Users :
            (/\ conn[u].pc = "oracle" /\ conn'[u].pc # "oracle"
             /\ db' # db /\ db'.ended_reason = "checkmate") =>
                credits' = credits]_vars

\* C16: a legal non-terminal move submitted by the participant on move as
\* {from, to, promotion}, over the WebSocket or to the move endpoint, is
\* accepted: the side to move flips, the move list grows by exactly one
\* entry and no game-over event is produced.
C16_QuietMoveAccepted ==
    [][/\ \A u \in Users :
            (/\ MoveReturns(u)
             /\ conn[u].uci[1] = "quiet"
             /\ <<"quiet", "">> \in LegalMoves(conn[u].game.fen_position)) =>
                /\ db'.current_turn = Other(conn[u].game.current_turn)
                /\ Len(db'.move_history) = Len(conn[u].game.move_history) + 1
                /\ out' = <<Msg("group", "move", "quiet")>>
       /\ \A u \in Users :
            (/\ db.status = "IN_PROGRESS"
             /\ is_user_turn(db, u)
             /\ out' \in {<<Msg(u, "http200", "move")>>,
                          <<Msg(u, "http400", "fen_and_move_required")>>}) =>
                /\ out' = <<Msg(u, "http200", "move")>>
                /\ db'.current_turn = Other(db.current_turn)
                /\ Len(db'.move_history) = Len(db.move_history) + 1
                /\ db'.status = "IN_PROGRESS"]_vars

\* C17: in every state, under any interleaving of create calls, at most
\* one PENDING invite exists for an ordered (challenger, target) pair, and
\* a create for a pair that already has a PENDING invite creates nothing.
C17_OnePendingPerPair ==
    [][/\ \A i, j \in 1..Len(invites') :
            (/\ i < j
             /\ invites'[i].status = "PENDING" /\ invites'[j].status = "PENDING"
             /\ invites'[i].from_player = invites'[j].from_player) =>
                invites'[i].to_player # invites'[j].to_player
       /\ Len(invites') > Len(invites) =>
            ~ExistingPending(invites'[Len(invites')].from_player,
                             invites'[Len(invites')].to_player)]_vars

\* C18: invite status transitions are one-way: once an invite's persisted
\* status is ACCEPTED, DECLINED or EXPIRED it never changes again, under
\* any interleaving of respond by the target and cancel by the challenger.
C18_InviteStatusFinal ==
    [][\A i \in 1..Len(invites) :
         invites[i].status \in {"ACCEPTED", "DECLINED", "EXPIRED"} =>
             invites'[i].status = invites[i].status]_vars

\* C19: accepting an invite creates exactly one new match, IN_PROGRESS,
\* between challenger and target with one of them as white, and links it
\* to the invite: at most one match is ever created from an invite, and an
\* invite has a linked match if and only if its status is ACCEPTED.
C19_OneMatchPerInvite ==
    /\ \A i \in 1..Len(invites) :
         /\ Cardinality({k \in 1..Len(made) : made[k].invite = i}) <= 1
         /\ invites[i].game # 0 <=> invites[i].status = "ACCEPTED"
         /\ invites[i].game # 0 =>
              /\ invites[i].game \in 1..Len(made)
              /\ made[invites[i].game].invite = i
    /\ \A k \in 1..Len(made) :
         LET g == made[k].game
             inv == invites[made[k].invite]
         IN  /\ g.status = "IN_PROGRESS"
             /\ g.player = inv.from_player
             /\ g.opponent = inv.to_player
             /\ g.white_player \in {inv.from_player, inv.to_player}

\* C20: a connection joins the fan-out group of the match only when the
\* match exists and the authenticated user is one of its two sides, and the
\* first frame it then gets is the state snapshot; an unauthenticated
\* connection (4401), an unknown match id (4404) and a user who is neither
\* side (4403) are closed with their own code, are not members of the group,
\* and get no frame but their error and close
C20_SubscribeAdmission ==
    [][/\ \A c \in Group' :
            /\ c # AnonymousUser
            /\ c \in {db'.player, db'.opponent}
       /\ \A c \in Group' \ Group :
            out' = <<StateMsg(c, db)>>
       /\ \A c \in Clients \ Group' :
            /\ \A i \in 1..Len(out') :
                 c \in Receivers(out'[i], Group') =>
                     out'[i].type \notin MatchEvents
            /\ (\E i \in 1..Len(out') : out'[i] = Msg(c, "close", out'[i].info)) =>
                 /\ conn' = conn
                 /\ \/ /\ c = AnonymousUser
                       /\ out' = Rejected(c, "auth_failed", "4401")
                    \/ /\ c \in Users
                       /\ out' = Rejected(c, "game_not_found", "4404")
                    \/ /\ c \in Users \ {db.player, db.opponent}
                       /\ out' = Rejected(c, "not_in_game", "4403")]_vars

\* a user who is neither side has just been refused while a side is
\* subscribed and the match is still on
C20_Witness ==
    /\ \E c \in Users \ {db.player, db.opponent} :
         out = Rejected(c, "not_in_game", "4403")
    /\ db.player \in Group
    /\ db.status = "IN_PROGRESS"

\* C27: when the oracle gives no move the bot's turn stays pending on an
\* unchanged IN_PROGRESS match, and the handler that gives up publishes an
\* error to the subscribers of the match
C27_OracleFailureSurfaced ==
    [][\A u \in Users :
         (conn[u].pc = "oracle" /\ conn'[u].pc # "oracle" /\ db' = db) =>
            /\ db'.status = "IN_PROGRESS"
            /\ db'.current_turn = "black"
            /\ \E i \in 1..Len(out') :
                 out'[i].to = "group" /\ out'[i].type = "error"]_vars

\* C30: a resignation that reaches finish_game while the match is
\* IN_PROGRESS, on or off the resigner's turn, finishes it with end reason
\* resign, the resigner as loser and the other side as winner, publishes
\* one game_over, and credits the WIN reward once to a human winner; in a
\* bot match the winner is null and nobody is credited
C30_Resign ==
    [][\A u \in Users :
         (conn[u].pc = "resign" /\ conn'[u].pc # "resign"
            /\ db.status = "IN_PROGRESS") =>
            LET other == IF u = db.player THEN db.opponent ELSE db.player
            IN  /\ db'.status = "FINISHED"
                /\ db'.ended_reason = "resign"
                /\ db'.loser = u
                /\ db'.winner = other
                /\ out' = <<Msg("group", "game_over", "resign")>>
                /\ \A x \in Users :
                     IF x = other
                     THEN /\ credits'[x] = credits[x] + 1
                          /\ coins'[x] = coins[x] + CHESS_REWARDS.STUDENT.WIN
                     ELSE /\ credits'[x] = credits[x]
                          /\ coins'[x] = coins[x]]_vars

\* a side that was not on move has resigned a match between two students
C30_Witness ==
    /\ db.opponent_type = "STUDENT"
    /\ db.ended_reason = "resign"
    /\ db.loser # PlayerOf(db, db.current_turn)
    /\ out = <<Msg("group", "game_over", "resign")>>
    /\ credits[db.winner] = 1

\* the handler of u, or the timer task, ends a call of finish_game_sync it
\* made for a match that is IN_PROGRESS
EndsFinish ==
    /\ db.status = "IN_PROGRESS"
    /\ \/ \E u \in Users : conn[u].pc = "resign" /\ conn'[u].pc # "resign"
       \/ timer.pc = "finish" /\ timer'.pc # "finish"
       \/ \E u \in Users :
            /\ conn[u].pc = "move" /\ conn'[u].pc # "move"
            /\ HoldsLegalMove(u)
            /\ LET after == Push(conn[u].game.fen_position, conn[u].uci)
               IN  IsCheckmate(after) \/ IsDrawn(after)

\* C26: whenever a match is finished, with or without an error in the
\* crediting, the terminal status is persisted, and every balance change
\* comes with its audit record and every audit record with its balance
\* change
C26_FinishSurvivesCreditFailure ==
    [][EndsFinish =>
         /\ db'.status = "FINISHED"
         /\ db'.ended_reason # None
         /\ \A x \in Users :
              (coins'[x] # coins[x]) <=> (credits'[x] # credits[x])]_vars

\* C24: at most one timer_loop task of the match is running at any
\* instant, whatever the sequence of connects, disconnects and task exits
C24_OneTimerTask == tasks <= 1

\* both participants are subscribed and one task is running
C24_Witness ==
    /\ Group = Users
    /\ tasks = 1
    /\ timer.pc = "state"

\* C25: a disconnect only takes the connection out of the group and leaves
\* the match, the balances and the timer task as they were, and the
\* snapshot sent on a subscribe carries the position, both clocks and the
\* move list exactly as stored
C25_DisconnectKeepsMatch ==
    [][/\ \A u \in Group \ Group' :
            /\ Group' = Group \ {u}
            /\ out' = <<>>
            /\ UNCHANGED <<db, timer, tasks, credits, coins>>
       /\ \A c \in Group' \ Group :
            /\ Len(out') = 1
            /\ out'[1].to = c /\ out'[1].type = "game_state"
            /\ out'[1].state.fen = db.fen_position
            /\ out'[1].state.white_time = db.white_time
            /\ out'[1].state.black_time = db.black_time
            /\ out'[1].state.move_history = db.move_history
            /\ db' = db]_vars

\* the player of a bot match, who has moved and left, has subscribed again
\* while the opposing clock was running
C25_Witness ==
    /\ db.opponent_type = "BOT"
    /\ db.move_history # <<>>
    /\ db.status = "IN_PROGRESS"
    /\ now > db.last_move_at + TicksPerSecond
    /\ out = <<StateMsg("p1", db)>>

\* C21: the move frames are published to the group in the order in which
\* their moves were persisted
C21_MoveEventsInOrder ==
    \A i \in 1..Len(sent) : \A j \in 1..Len(sent) :
        (i < j /\ sent[i].type = "move" /\ sent[j].type = "move") =>
            sent[i].nr < sent[j].nr

\* C22: a game_over that a move caused is published after the move frame
\* of that move
C22_GameOverAfterItsMove ==
    \A j \in 1..Len(sent) :
        (sent[j].type = "game_over" /\ sent[j].nr > 0) =>
            \E i \in 1..(j - 1) :
                sent[i].type = "move" /\ sent[i].nr = sent[j].nr

\* the bot's reply has ended the match and its two frames are out, after
\* the frame of the player's move
C22_Witness ==
    /\ Len(sent) = 3
    /\ sent[1].type = "move" /\ sent[1].nr = 1
    /\ sent[2].type = "move" /\ sent[2].nr = 2
    /\ sent[3].type = "game_over" /\ sent[3].nr = 2

\* C23: no timer_update is published once the game_over of the match has
\* been published
C23_NoTimerAfterGameOver ==
    [][(\E i \in 1..Len(out') : out'[i].type = "timer_update") =>
          \A j \in 1..Len(sent) : sent[j].type # "game_over"]_vars

\* the clock of the side on move has run out on an IN_PROGRESS match
ClockRanOut == db.status = "IN_PROGRESS" /\ Expired(db, now)

\* C28: a match that is IN_PROGRESS has a timer task running, subscribed to
\* or not, and when the clock of the side on move has run out the match
\* gets finished by timeout unless a move is accepted first
C28_TimerForWholeLifetime ==
    /\ [](db.status = "IN_PROGRESS" => tasks = 1)
    /\ (ClockRanOut ~> (~ClockRanOut))

\* C29: once the persisted status is not IN_PROGRESS no timer_update is
\* published any more, the timer task leaves its loop, and the registry
\* holds the match id exactly while a task of the match is running
C29_TimerStopsItself ==
    /\ [][db.status # "IN_PROGRESS" =>
            \A i \in 1..Len(out') : out'[i].type # "timer_update"]_vars
    /\ [](InRegistry <=> tasks = 1)
    /\ (db.status # "IN_PROGRESS" ~> ~InRegistry)

\* a consumer answers a message at a guard: the handler returns to idle
\* with no field of the match, the timer task or the balances changed
ReturnsAtGuard ==
    /\ out' # out
    /\ UNCHANGED <<db, now, conn, timer, credits, coins, ops, turn_since,
                   inviteVars, fanoutVars, tasks>>

\* C31: a move or a resign sent on a match that is not IN_PROGRESS leaves
\* the match unchanged, publishes nothing to the group, and is answered
\* with an error frame to the sender
C31_NotInProgressRefused ==
    [][(db.status # "IN_PROGRESS" /\ ReturnsAtGuard) =>
          \E u \in Users : \E i \in 1..Len(out') :
              out'[i].to = u /\ out'[i].type = "error"]_vars

\* C34: the result of a finished match is relative to its player field:
\* WIN exactly when the player is the winner, LOSE exactly when the player
\* is the loser, DRAW otherwise
C34_ResultRelativeToPlayer ==
    db.status = "FINISHED" =>
        /\ (db.result = "WIN") <=> (db.winner = db.player)
        /\ (db.result = "LOSE") <=> (db.loser = db.player)
        /\ (db.result = "DRAW") <=> (db.winner # db.player /\ db.loser # db.player)

\* C38: on a finished match coins_earned is the amount credited to the
\* player of the match for it
C38_CoinsEarnedIsCredit ==
    db.status = "FINISHED" => db.coins_earned = coins[db.player]

\* the stored clocks, timestamp, turn, position and status of the match
Persisted(game) ==
    <<game.white_time, game.black_time, game.last_move_at, game.current_turn,
      game.fen_position, game.status>>

\* a handler ends its call of apply_move or finish_game
AppliesOrFinishes ==
    \/ \E u \in Users :
         conn[u].pc \in {"move", "oracle", "resign"} /\ conn'[u].pc # conn[u].pc
    \/ timer.pc = "finish" /\ timer'.pc # "finish"

\* C35: a tick that detects no timeout publishes a timer_update and leaves
\* the row as it is, and the stored clocks, timestamp, turn, position and
\* status change only in the step of a handler that applies a move or
\* finishes the match
C35_TickLeavesMatch ==
    [][/\ (timer.pc = "state" /\ timer'.pc = "load") =>
            /\ db' = db
            /\ out' = <<Msg("group", "timer_update", "")>>
       /\ (Persisted(db') # Persisted(db)) => AppliesOrFinishes]_vars

\* the task has ticked, without a timeout, two seconds into the first turn
\* of black, and the stored clock of black is still whole
C35_Witness ==
    /\ out = <<Msg("group", "timer_update", "")>>
    /\ db.status = "IN_PROGRESS"
    /\ db.current_turn = "black"
    /\ db.last_move_at # NoTime
    /\ now >= db.last_move_at + TicksPerSecond
    /\ db.black_time = InitialTime

\* C39: a match without moves has no last_move_at, and while the row has
\* none no tick detects a timeout, both stored clocks are whole and the
\* match is not finished by timeout
C39_NoClockBeforeFirstMove ==
    [][/\ db.move_history = <<>> => db.last_move_at = NoTime
       /\ (timer.pc = "state" /\ timer'.pc # "state"
             /\ timer.game.last_move_at = NoTime) =>
            /\ timer'.pc = "load"
            /\ db' = db
       /\ db'.last_move_at = NoTime =>
            /\ db'.white_time = InitialTime
            /\ db'.black_time = InitialTime
            /\ db'.ended_reason # "timeout"]_vars

\* the task has ticked at the horizon on a match that still waits for its
\* first move
C39_Witness ==
    /\ now = MaxNow
    /\ db.last_move_at = NoTime
    /\ db.status = "IN_PROGRESS"
    /\ out = <<Msg("group", "timer_update", "")>>

\* C32: a move submitted without the promotion key is resolved as a queen
\* promotion where the queen promotion is the legal move, and is accepted
\* as sent whenever the from-to pair is a legal move without or with the
\* promotion
C32_PromotionDefault ==
    \A i \in 1..Len(out) :
        out[i].promotion = "absent" =>
            /\ <<out[i].from_to, "q">> \in LegalMoves(out[i].board) =>
                    out[i].accepted /\ out[i].uci = <<out[i].from_to, "q">>
            /\ <<out[i].from_to, "">> \in LegalMoves(out[i].board) =>
                    out[i].accepted

\* the request r answers with success in this step
RespondSucceeds(r) == req[r].pc = "respond" /\ req'[r].pc = "idle"
CancelSucceeds(r) == req[r].pc = "cancel" /\ req'[r].pc = "idle"

\* C33: no invite is created with the challenger as target; a respond
\* succeeds only on an invite that is PENDING and addressed to the
\* responder, a cancel only on an invite that is PENDING and was created by
\* the caller; a failing call leaves all invites and matches as they are,
\* and a successful cancel sets that invite, and no other, to EXPIRED
C33_InviteGuards ==
    [][/\ Len(invites') > Len(invites) =>
            invites'[Len(invites')].from_player # invites'[Len(invites')].to_player
       /\ (Len(out') = 1 /\ out'[1].type \in {"http400", "http404"}) =>
            invites' = invites /\ made' = made
       /\ \A r \in Reqs : RespondSucceeds(r) =>
            /\ invites[req[r].id].status = "PENDING"
            /\ invites[req[r].id].to_player = req[r].user
       /\ \A r \in Reqs : CancelSucceeds(r) =>
            /\ invites[req[r].id].status = "PENDING"
            /\ invites[req[r].id].from_player = req[r].user
            /\ invites'[req[r].id].status = "EXPIRED"
            /\ \A j \in 1..Len(invites) :
                 j # req[r].id => invites'[j] = invites[j]
            /\ made' = made]_vars

\* C36: no accepted move is lost: the stored move list has one entry for
\* every accepted move, and every published move event has its move in the
\* stored list at the place it was accepted at
C36_NoAcceptedMoveLost ==
    /\ Len(db.move_history) = Accepted
    /\ \A i \in 1..Len(sent) :
         sent[i].type = "move" =>
             /\ sent[i].nr \in 1..Len(db.move_history)
             /\ db.move_history[sent[i].nr] = San(InitialFen, <<sent[i].info, "">>)

\* the sum of the amounts of the audit records written for u
RECURSIVE LedgerSum(_, _)
LedgerSum(rows, u) ==
    IF rows = <<>> THEN 0
    ELSE (IF Head(rows).user = u THEN Head(rows).amount ELSE 0)
         + LedgerSum(Tail(rows), u)

\* C37: after every step the balance of a user, 0 at the start, is the sum
\* of the amounts of the audit records written for them, and the
\* balance_after of a record just written is the persisted balance
C37_BalanceIsLedgerSum ==
    [][/\ \A u \in Users : balance'[u] = LedgerSum(ledger', u)
       /\ \A i \in (Len(ledger) + 1)..Len(ledger') :
            ledger'[i].balance_after = balance'[ledger'[i].user]]_vars

====
